---- MODULE Spec2Model ----
(***************************************************************************)
(* Pairing page of the nutrition mini-app: the pairing-token resolver      *)
(* (normalizePairingToken / resolvePairingToken) and the pairing flow      *)
(* (startScanning, stopScanning, handleScannedCode, pairDevice,            *)
(* handleManualEntry, the mount and cleanup effects, the render gating).   *)
(* Strings are TLA+ strings; the string functions of the platform that the *)
(* code calls (trim, URLSearchParams, URL, JSON.parse, atob) are computed  *)
(* character by character.                                                 *)
(***************************************************************************)
EXTENDS Integers, Sequences, FiniteSets, TLC

\* ------------------------------------------------------------------------
\* Characters and strings
\* ------------------------------------------------------------------------

\* JavaScript null / undefined where a string is expected.
null == "<null>"

Ch(s, i) == SubSeq(s, i, i)

\* Printable ASCII: codes 32 (space) to 95 (_) and 97 (a) to 126 (~); any
\* other character (a control character, a byte above 126, the backtick)
\* is kept as the form-feed placeholder.
AsciiLow == " !\"#$%&'()*+,-./0123456789:;<=>?@ABCDEFGHIJKLMNOPQRSTUVWXYZ[\\]^_"

AsciiHigh == "abcdefghijklmnopqrstuvwxyz{|}~"

NonPrintable == "\f"

CharOfCode(c) ==
  IF c >= 32 /\ c <= 95 THEN Ch(AsciiLow, c - 31)
  ELSE IF c >= 97 /\ c <= 126 THEN Ch(AsciiHigh, c - 96)
  ELSE NonPrintable

CodeOfChar(c) ==
  IF \E i \in 1..Len(AsciiLow) : Ch(AsciiLow, i) = c
  THEN 31 + (CHOOSE i \in 1..Len(AsciiLow) : Ch(AsciiLow, i) = c)
  ELSE IF \E i \in 1..Len(AsciiHigh) : Ch(AsciiHigh, i) = c
  THEN 96 + (CHOOSE i \in 1..Len(AsciiHigh) : Ch(AsciiHigh, i) = c)
  ELSE 12

Digits == {"0","1","2","3","4","5","6","7","8","9"}

Lower == {"a","b","c","d","e","f","g","h","i","j","k","l","m",
          "n","o","p","q","r","s","t","u","v","w","x","y","z"}

Upper == {"A","B","C","D","E","F","G","H","I","J","K","L","M",
          "N","O","P","Q","R","S","T","U","V","W","X","Y","Z"}

WhiteSpace == {" ", "\t", "\n", "\r", "\f"}

\* String.prototype.trim
RECURSIVE TrimLeft(_)
TrimLeft(s) ==
  IF Len(s) > 0 /\ Ch(s, 1) \in WhiteSpace THEN TrimLeft(SubSeq(s, 2, Len(s))) ELSE s

RECURSIVE TrimRight(_)
TrimRight(s) ==
  IF Len(s) > 0 /\ Ch(s, Len(s)) \in WhiteSpace THEN TrimRight(SubSeq(s, 1, Len(s) - 1)) ELSE s

trim(s) == TrimRight(TrimLeft(s))

\* value.replace(/^"+|"+$/g, "")
RECURSIVE StripLeadingQuotes(_)
StripLeadingQuotes(s) ==
  IF Len(s) > 0 /\ Ch(s, 1) = "\"" THEN StripLeadingQuotes(SubSeq(s, 2, Len(s))) ELSE s

RECURSIVE StripTrailingQuotes(_)
StripTrailingQuotes(s) ==
  IF Len(s) > 0 /\ Ch(s, Len(s)) = "\"" THEN StripTrailingQuotes(SubSeq(s, 1, Len(s) - 1)) ELSE s

StripWrappingQuotes(s) == StripTrailingQuotes(StripLeadingQuotes(s))

\* String.prototype.includes
includes(s, sub) ==
  \E i \in 1..(Len(s) - Len(sub) + 1) : SubSeq(s, i, i + Len(sub) - 1) = sub

\* String.prototype.indexOf, 1-based; 0 when absent
IndexOfChar(s, c) ==
  IF \E i \in 1..Len(s) : Ch(s, i) = c
  THEN CHOOSE i \in 1..Len(s) : Ch(s, i) = c /\ \A j \in 1..(i - 1) : Ch(s, j) # c
  ELSE 0

AllIn(s, set) == \A i \in 1..Len(s) : Ch(s, i) \in set

\* ------------------------------------------------------------------------
\* The token shape /^[A-Za-z0-9_-]{6,128}$/
\* ------------------------------------------------------------------------
TokenMinLen == 6

TokenMaxLen == 128

TokenChars == Lower \cup Upper \cup Digits \cup {"_", "-"}

MatchesTokenShape(s) ==
  /\ Len(s) >= TokenMinLen
  /\ Len(s) <= TokenMaxLen
  /\ AllIn(s, TokenChars)

ObjectObject == "[object Object]"

\* ------------------------------------------------------------------------
\* URLSearchParams and URL
\* ------------------------------------------------------------------------
HexDigits == "0123456789ABCDEF"

HexLower == "0123456789abcdef"

IsHex(c) == \E i \in 1..16 : Ch(HexDigits, i) = c \/ Ch(HexLower, i) = c

HexVal(c) == (CHOOSE i \in 1..16 : Ch(HexDigits, i) = c \/ Ch(HexLower, i) = c) - 1

\* application/x-www-form-urlencoded decoding of one name or value:
\* "+" is a space, %XX is the byte XX.
RECURSIVE FormDecode(_)
FormDecode(s) ==
  IF Len(s) = 0 THEN ""
  ELSE IF Ch(s, 1) = "+" THEN " " \o FormDecode(SubSeq(s, 2, Len(s)))
  ELSE IF Ch(s, 1) = "%" /\ Len(s) >= 3 /\ IsHex(Ch(s, 2)) /\ IsHex(Ch(s, 3))
       THEN CharOfCode(16 * HexVal(Ch(s, 2)) + HexVal(Ch(s, 3)))
              \o FormDecode(SubSeq(s, 4, Len(s)))
  ELSE Ch(s, 1) \o FormDecode(SubSeq(s, 2, Len(s)))

FormSafe == Lower \cup Upper \cup Digits \cup {"*", "-", ".", "_"}

\* application/x-www-form-urlencoded serialisation of one name or value.
RECURSIVE FormEncode(_)
FormEncode(s) ==
  IF Len(s) = 0 THEN ""
  ELSE LET c == Ch(s, 1)
           n == CodeOfChar(c)
           e == IF c \in FormSafe THEN c
                ELSE IF c = " " THEN "+"
                ELSE "%" \o Ch(HexDigits, (n \div 16) + 1) \o Ch(HexDigits, (n % 16) + 1)
       IN e \o FormEncode(SubSeq(s, 2, Len(s)))

\* One "name=value" piece as a <<name, value>> pair.
ParsePair(piece) ==
  LET eq == IndexOfChar(piece, "=")
  IN IF eq = 0 THEN <<FormDecode(piece), "">>
     ELSE <<FormDecode(SubSeq(piece, 1, eq - 1)), FormDecode(SubSeq(piece, eq + 1, Len(piece)))>>

RECURSIVE ParsePairs(_)
ParsePairs(s) ==
  IF Len(s) = 0 THEN <<>>
  ELSE LET amp  == IndexOfChar(s, "&")
           head == IF amp = 0 THEN s ELSE SubSeq(s, 1, amp - 1)
           rest == IF amp = 0 THEN "" ELSE SubSeq(s, amp + 1, Len(s))
       IN IF Len(head) = 0 THEN ParsePairs(rest)
          ELSE <<ParsePair(head)>> \o ParsePairs(rest)

\* new URLSearchParams(init): one leading "?" is dropped.
URLSearchParams(init) ==
  ParsePairs(IF Len(init) > 0 /\ Ch(init, 1) = "?" THEN SubSeq(init, 2, Len(init)) ELSE init)

\* params.get(name): the first value of that name, or null.
ParamsGet(params, name) ==
  IF \E i \in 1..Len(params) : params[i][1] = name
  THEN params[CHOOSE i \in 1..Len(params) :
                params[i][1] = name /\ \A j \in 1..(i - 1) : params[j][1] # name][2]
  ELSE null

\* params.toString()
RECURSIVE ParamsToString(_)
ParamsToString(params) ==
  IF Len(params) = 0 THEN ""
  ELSE FormEncode(params[1][1]) \o "=" \o FormEncode(params[1][2])
         \o (IF Len(params) > 1 THEN "&" ELSE "")
         \o ParamsToString(Tail(params))

SchemeChars == Lower \cup Upper \cup Digits \cup {"+", "-", "."}

SpecialSchemes == {"http", "https", "ws", "wss", "ftp"}

HostChars == Lower \cup Upper \cup Digits \cup {".", "-", "_", ":", "@"}

ToLowerChar(c) ==
  IF c \in Upper THEN Ch(AsciiHigh, CodeOfChar(c) - 64) ELSE c

RECURSIVE ToLower(_)
ToLower(s) == IF Len(s) = 0 THEN "" ELSE ToLowerChar(Ch(s, 1)) \o ToLower(SubSeq(s, 2, Len(s)))

RECURSIVE SkipSlashes(_)
SkipSlashes(s) ==
  IF Len(s) > 0 /\ Ch(s, 1) \in {"/", "\\"} THEN SkipSlashes(SubSeq(s, 2, Len(s))) ELSE s

\* Length of the longest prefix of s that has none of the characters of stop.
RECURSIVE PrefixLen(_, _)
PrefixLen(s, stop) ==
  IF Len(s) = 0 \/ Ch(s, 1) \in stop THEN 0 ELSE 1 + PrefixLen(SubSeq(s, 2, Len(s)), stop)

\* new URL(value) without a base: [ok |-> FALSE] when it throws, otherwise
\* the query of the URL (what url.searchParams is built from).
ParseURL(value) ==
  LET colon  == IndexOfChar(value, ":")
      scheme == SubSeq(value, 1, colon - 1)
      after  == SubSeq(value, colon + 1, Len(value))
      nofrag == SubSeq(after, 1, PrefixLen(after, {"#"}))
      qpos   == IndexOfChar(nofrag, "?")
      query  == IF qpos = 0 THEN "" ELSE SubSeq(nofrag, qpos + 1, Len(nofrag))
      auth   == SkipSlashes(after)
      host   == SubSeq(auth, 1, PrefixLen(auth, {"/", "\\", "?", "#"}))
  IN IF colon <= 1 \/ Ch(value, 1) \notin (Lower \cup Upper) \/ ~AllIn(scheme, SchemeChars)
     THEN [ok |-> FALSE, query |-> ""]
     ELSE IF ToLower(scheme) \in SpecialSchemes /\ (Len(host) = 0 \/ ~AllIn(host, HostChars))
     THEN [ok |-> FALSE, query |-> ""]
     ELSE [ok |-> TRUE, query |-> query]

\* ------------------------------------------------------------------------
\* JSON.parse
\* A parsed value is [t, s, f]: t its type ("str", "num", "bool", "null",
\* "obj", "arr", or "undef" for undefined), s the text of a string, number
\* or boolean, f the <<key, value>> members of an object.
\* ------------------------------------------------------------------------
JVal(t, s, f) == [t |-> t, s |-> s, f |-> f]

Undefined == JVal("undef", "", <<>>)

JFail == [ok |-> FALSE, v |-> Undefined, next |-> 0]

JOk(v, next) == [ok |-> TRUE, v |-> v, next |-> next]

JsonWs == {" ", "\t", "\n", "\r"}

RECURSIVE SkipWs(_, _)
SkipWs(s, i) == IF i <= Len(s) /\ Ch(s, i) \in JsonWs THEN SkipWs(s, i + 1) ELSE i

RECURSIVE DigitRun(_, _)
DigitRun(s, i) == IF i <= Len(s) /\ Ch(s, i) \in Digits THEN 1 + DigitRun(s, i + 1) ELSE 0

\* The characters of a string literal from position j (after the opening
\* quote) to its closing quote.
RECURSIVE JStrBody(_, _)
JStrBody(s, j) ==
  IF j > Len(s) THEN JFail
  ELSE LET c == Ch(s, j) IN
    IF c = "\"" THEN JOk(JVal("str", "", <<>>), j + 1)
    ELSE IF c \in {"\t", "\n", "\r", "\f"} THEN JFail
    ELSE IF c = "\\" THEN
      IF j + 1 > Len(s) THEN JFail
      ELSE LET e == Ch(s, j + 1) IN
        IF e \in {"\"", "\\", "/", "n", "t", "r", "f", "b"} THEN
          LET d    == CASE e = "n" -> "\n" [] e = "t" -> "\t" [] e = "r" -> "\r"
                        [] e = "f" -> "\f" [] e = "b" -> NonPrintable [] OTHER -> e
              rest == JStrBody(s, j + 2)
          IN IF rest.ok THEN JOk(JVal("str", d \o rest.v.s, <<>>), rest.next) ELSE JFail
        ELSE IF e = "u" /\ j + 5 <= Len(s) /\ \A k \in 2..5 : IsHex(Ch(s, j + k)) THEN
          LET code == 4096 * HexVal(Ch(s, j + 2)) + 256 * HexVal(Ch(s, j + 3))
                        + 16 * HexVal(Ch(s, j + 4)) + HexVal(Ch(s, j + 5))
              rest == JStrBody(s, j + 6)
          IN IF rest.ok THEN JOk(JVal("str", CharOfCode(code) \o rest.v.s, <<>>), rest.next)
             ELSE JFail
        ELSE JFail
    ELSE LET rest == JStrBody(s, j + 1)
         IN IF rest.ok THEN JOk(JVal("str", c \o rest.v.s, <<>>), rest.next) ELSE JFail

\* -?(0|[1-9][0-9]*)(.[0-9]+)?([eE][+-]?[0-9]+)?
JNumber(s, i) ==
  LET i1   == IF Ch(s, i) = "-" THEN i + 1 ELSE i
      n1   == DigitRun(s, i1)
      i2   == i1 + n1
      frac == i2 <= Len(s) /\ Ch(s, i2) = "."
      n2   == IF frac THEN DigitRun(s, i2 + 1) ELSE 0
      i3   == IF frac THEN i2 + 1 + n2 ELSE i2
      exp  == i3 <= Len(s) /\ Ch(s, i3) \in {"e", "E"}
      i4   == IF exp /\ i3 + 1 <= Len(s) /\ Ch(s, i3 + 1) \in {"+", "-"} THEN i3 + 2 ELSE i3 + 1
      n3   == IF exp THEN DigitRun(s, i4) ELSE 0
      end  == IF exp THEN i4 + n3 ELSE i3
  IN IF n1 = 0 \/ (n1 > 1 /\ Ch(s, i1) = "0") \/ (frac /\ n2 = 0) \/ (exp /\ n3 = 0)
     THEN JFail
     ELSE JOk(JVal("num", SubSeq(s, i, end - 1), <<>>), end)

StartsAt(s, i, lit) == i + Len(lit) - 1 <= Len(s) /\ SubSeq(s, i, i + Len(lit) - 1) = lit

RECURSIVE JValue(_, _)
RECURSIVE JMembers(_, _, _)
RECURSIVE JElements(_, _, _)

\* "key": value pairs up to the closing brace.
JMembers(s, i, first) ==
  IF i > Len(s) THEN JFail
  ELSE IF first /\ Ch(s, i) = "}" THEN JOk(JVal("obj", "", <<>>), i + 1)
  ELSE IF Ch(s, i) # "\"" THEN JFail
  ELSE LET key == JStrBody(s, i + 1) IN
    IF ~key.ok THEN JFail
    ELSE LET c == SkipWs(s, key.next) IN
      IF c > Len(s) \/ Ch(s, c) # ":" THEN JFail
      ELSE LET val == JValue(s, SkipWs(s, c + 1)) IN
        IF ~val.ok THEN JFail
        ELSE LET k == SkipWs(s, val.next) IN
          IF k > Len(s) THEN JFail
          ELSE IF Ch(s, k) = "}" THEN JOk(JVal("obj", "", << <<key.v.s, val.v>> >>), k + 1)
          ELSE IF Ch(s, k) = "," THEN
            LET rest == JMembers(s, SkipWs(s, k + 1), FALSE)
            IN IF rest.ok
               THEN JOk(JVal("obj", "", << <<key.v.s, val.v>> >> \o rest.v.f), rest.next)
               ELSE JFail
          ELSE JFail

\* Array elements up to the closing bracket; the elements are not kept.
JElements(s, i, first) ==
  IF i > Len(s) THEN JFail
  ELSE IF first /\ Ch(s, i) = "]" THEN JOk(JVal("arr", "", <<>>), i + 1)
  ELSE LET val == JValue(s, i) IN
    IF ~val.ok THEN JFail
    ELSE LET k == SkipWs(s, val.next) IN
      IF k > Len(s) THEN JFail
      ELSE IF Ch(s, k) = "]" THEN JOk(JVal("arr", "", <<>>), k + 1)
      ELSE IF Ch(s, k) = "," THEN JElements(s, SkipWs(s, k + 1), FALSE)
      ELSE JFail

JValue(s, i) ==
  IF i > Len(s) THEN JFail
  ELSE LET c == Ch(s, i) IN
    IF c = "\"" THEN JStrBody(s, i + 1)
    ELSE IF c = "{" THEN JMembers(s, SkipWs(s, i + 1), TRUE)
    ELSE IF c = "[" THEN JElements(s, SkipWs(s, i + 1), TRUE)
    ELSE IF StartsAt(s, i, "true") THEN JOk(JVal("bool", "true", <<>>), i + 4)
    ELSE IF StartsAt(s, i, "false") THEN JOk(JVal("bool", "false", <<>>), i + 5)
    ELSE IF StartsAt(s, i, "null") THEN JOk(JVal("null", "", <<>>), i + 4)
    ELSE IF c = "-" \/ c \in Digits THEN JNumber(s, i)
    ELSE JFail

\* The value r read from text is the parse when only white space follows it.
JWhole(text, r) ==
  IF r.ok /\ SkipWs(text, r.next) = Len(text) + 1
  THEN [ok |-> TRUE, v |-> r.v]
  ELSE [ok |-> FALSE, v |-> Undefined]

\* JSON.parse(text): [ok |-> FALSE] when it throws.
JSONparse(text) == JWhole(text, JValue(text, SkipWs(text, 1)))

\* obj[key] of a parsed value: the last member of that name; undefined when
\* absent or when the value is not an object (a number, a boolean, an array).
Prop(v, key) ==
  IF v.t = "obj" /\ \E i \in 1..Len(v.f) : v.f[i][1] = key
  THEN v.f[CHOOSE i \in 1..Len(v.f) :
             v.f[i][1] = key /\ \A j \in (i + 1)..Len(v.f) : v.f[j][1] # key][2]
  ELSE Undefined

\* JavaScript truthiness of a parsed value.
Truthy(v) ==
  CASE v.t \in {"undef", "null"} -> FALSE
    [] v.t = "bool" -> v.s = "true"
    [] v.t = "str"  -> v.s # ""
    [] v.t = "num"  -> ~AllIn(v.s, {"0", "-", ".", "e", "E", "+"})
    [] OTHER -> TRUE

\* ------------------------------------------------------------------------
\* atob and btoa
\* ------------------------------------------------------------------------
Base64Alphabet == "ABCDEFGHIJKLMNOPQRSTUVWXYZabcdefghijklmnopqrstuvwxyz0123456789+/"

IsB64(c) == \E i \in 1..64 : Ch(Base64Alphabet, i) = c

B64Val(c) == (CHOOSE i \in 1..64 : Ch(Base64Alphabet, i) = c) - 1

RECURSIVE RemoveWs(_)
RemoveWs(s) ==
  IF Len(s) = 0 THEN ""
  ELSE (IF Ch(s, 1) \in WhiteSpace THEN "" ELSE Ch(s, 1)) \o RemoveWs(SubSeq(s, 2, Len(s)))

\* The bytes of a run of base64 characters, four characters to three bytes.
RECURSIVE B64Bytes(_)
B64Bytes(s) ==
  IF Len(s) < 2 THEN ""
  ELSE LET a == B64Val(Ch(s, 1))
           b == B64Val(Ch(s, 2))
           c == IF Len(s) >= 3 THEN B64Val(Ch(s, 3)) ELSE 0
           d == IF Len(s) >= 4 THEN B64Val(Ch(s, 4)) ELSE 0
           n == 262144 * a + 4096 * b + 64 * c + d
       IN CharOfCode(n \div 65536)
            \o (IF Len(s) >= 3 THEN CharOfCode((n \div 256) % 256) ELSE "")
            \o (IF Len(s) >= 4 THEN CharOfCode(n % 256) ELSE "")
            \o (IF Len(s) > 4 THEN B64Bytes(SubSeq(s, 5, Len(s))) ELSE "")

\* atob(data), the forgiving base64 decode: [ok |-> FALSE] when it throws.
atob(data) ==
  LET d0 == RemoveWs(data)
      d1 == IF Len(d0) % 4 = 0 /\ Len(d0) > 0 /\ Ch(d0, Len(d0)) = "="
            THEN IF Ch(d0, Len(d0) - 1) = "="
                 THEN SubSeq(d0, 1, Len(d0) - 2)
                 ELSE SubSeq(d0, 1, Len(d0) - 1)
            ELSE d0
  IN IF Len(d1) % 4 = 1 \/ \E i \in 1..Len(d1) : ~IsB64(Ch(d1, i))
     THEN [ok |-> FALSE, s |-> ""]
     ELSE [ok |-> TRUE, s |-> B64Bytes(d1)]

\* btoa(text), for printable text.
RECURSIVE btoa(_)
btoa(text) ==
  IF Len(text) = 0 THEN ""
  ELSE LET a == CodeOfChar(Ch(text, 1))
           b == IF Len(text) >= 2 THEN CodeOfChar(Ch(text, 2)) ELSE 0
           c == IF Len(text) >= 3 THEN CodeOfChar(Ch(text, 3)) ELSE 0
           n == 65536 * a + 256 * b + c
       IN Ch(Base64Alphabet, (n \div 262144) + 1)
            \o Ch(Base64Alphabet, ((n \div 4096) % 64) + 1)
            \o (IF Len(text) >= 2 THEN Ch(Base64Alphabet, ((n \div 64) % 64) + 1) ELSE "=")
            \o (IF Len(text) >= 3 THEN Ch(Base64Alphabet, (n % 64) + 1) ELSE "=")
            \o (IF Len(text) > 3 THEN btoa(SubSeq(text, 4, Len(text))) ELSE "")

\* ------------------------------------------------------------------------
\* normalizePairingToken
\* ------------------------------------------------------------------------
Str(s) == JVal("str", s, <<>>)

Obj(f) == JVal("obj", "", f)

\* A string is truthy when it is neither null nor empty.
TruthyStr(s) == s # null /\ s # ""

\* a || b on strings
OrElse(a, b) == IF TruthyStr(a) THEN a ELSE b

\* acceptIfLooksLikeToken with a pattern that takes hexadecimal ids only.
acceptIfLooksLikeHex(value) ==
  LET trimmed == StripWrappingQuotes(trim(value))
  IN IF trimmed = "" THEN null
     ELSE IF trimmed = ObjectObject THEN null
     ELSE IF Len(trimmed) >= TokenMinLen /\ Len(trimmed) <= TokenMaxLen
             /\ \A i \in 1..Len(trimmed) : IsHex(Ch(trimmed, i))
     THEN trimmed
     ELSE null

acceptIfLooksLikeToken(value) ==
  LET trimmed == StripWrappingQuotes(trim(value))
  IN IF trimmed = "" THEN null
     ELSE IF trimmed = ObjectObject THEN null
     ELSE IF MatchesTokenShape(trimmed) THEN trimmed
     ELSE null

\* s when it is truthy, else null.
Truthful(s) == IF TruthyStr(s) THEN s ELSE null

\* params.get("token") || params.get("start_param")
DirectOf(params) == OrElse(ParamsGet(params, "token"), ParamsGet(params, "start_param"))

\* The first try block of extractFromQueryLike, url being new URL(value).
DirectOfURL(url) == IF url.ok THEN DirectOf(URLSearchParams(url.query)) ELSE null

extractFromQueryLike(value) ==
  IF ~includes(value, "token") /\ ~includes(value, "start_param") THEN null
  ELSE Truthful(OrElse(DirectOfURL(ParseURL(value)), DirectOf(URLSearchParams(value))))

\* The string that the JSON branches recurse on: the parsed value when it is
\* a string, its token member when that is a string, otherwise null.
JsonTokenOf(parsed) ==
  IF parsed.t = "str" THEN parsed.s
  ELSE IF Truthy(parsed) /\ Prop(parsed, "token").t = "str" THEN Prop(parsed, "token").s
  ELSE null

\* Rejected without the test for the stringified object.
RejectedEmptyOnly(trimmed) == trimmed = ""

\* The values that parseString turns down before it looks any further.
Rejected(trimmed) == trimmed = "" \/ trimmed = ObjectObject

\* parseString, one operator for each of its steps; each step is given the
\* value that the step before it computed.
RECURSIVE parseString(_)

\* Lines 85 to 91: the decoded text as a query string, else the trimmed value.
parseDecodedQuery(trimmed, decodedQuery) ==
  IF TruthyStr(decodedQuery) THEN parseString(decodedQuery) ELSE trimmed

\* Lines 78 to 82: the decoded text as JSON; JSON.parse throwing ends the try.
parseDecoded(trimmed, decoded, decodedParsed) ==
  IF ~decodedParsed.ok THEN trimmed
  ELSE IF JsonTokenOf(decodedParsed.v) # null THEN parseString(JsonTokenOf(decodedParsed.v))
  ELSE parseDecodedQuery(trimmed, extractFromQueryLike(decoded))

\* Line 77: atob throwing ends the try.
parseBase64(trimmed, decoded) ==
  IF ~decoded.ok THEN trimmed
  ELSE parseDecoded(trimmed, decoded.s, JSONparse(decoded.s))

\* Lines 68 to 74: the trimmed value as JSON.
parseJson(trimmed, parsed) ==
  IF parsed.ok /\ JsonTokenOf(parsed.v) # null THEN parseString(JsonTokenOf(parsed.v))
  ELSE parseBase64(trimmed, atob(trimmed))

\* Lines 65 to 66: the trimmed value as a query string or URL.
parseQueryLike(trimmed, fromQuery) ==
  IF TruthyStr(fromQuery) THEN parseString(fromQuery)
  ELSE parseJson(trimmed, JSONparse(trimmed))

\* Lines 59 to 62.
parseTrimmed(trimmed) ==
  IF Rejected(trimmed) THEN null
  ELSE OrElse(acceptIfLooksLikeToken(trimmed),
              parseQueryLike(trimmed, extractFromQueryLike(trimmed)))

parseString(str) == IF str = "" THEN null ELSE parseTrimmed(trim(str))

\* The string that normalizePairingToken parses: raw itself, or the token
\* member of an object.
TokenText(raw) ==
  IF raw.t = "str" THEN raw
  ELSE IF raw.t \in {"obj", "arr"} THEN Prop(raw, "token")
  ELSE Undefined

normalizePairingToken(raw) ==
  IF TokenText(raw).t = "str" THEN parseString(TokenText(raw).s) ELSE null

\* ------------------------------------------------------------------------
\* resolvePairingToken
\* The ambient context: loc is window.location.search; host is
\* window.Telegram.WebApp, with the members of initDataUnsafe that the code
\* reads, initData, and whether the popup methods and the user are there.
\* ------------------------------------------------------------------------
FromParam(v) == IF v = null THEN JVal("null", "", <<>>) ELSE Str(v)

\* Candidates with the host's fields ahead of the query parameters.
CandidatesHostFirst(loc, host) ==
  LET urlParams == URLSearchParams(loc)
  IN << host.start_param,
        host.startParam,
        host.startapp,
        host.initData,
        FromParam(ParamsGet(urlParams, "token")),
        FromParam(ParamsGet(urlParams, "start_param")),
        Str(ParamsToString(urlParams)) >>

Candidates(loc, host) ==
  LET urlParams == URLSearchParams(loc)
  IN << FromParam(ParamsGet(urlParams, "token")),
        FromParam(ParamsGet(urlParams, "start_param")),
        host.start_param,
        host.startParam,
        host.startapp,
        host.initData,
        Str(ParamsToString(urlParams)) >>

RECURSIVE FirstToken(_, _)
FirstToken(candidates, i) ==
  IF i > Len(candidates) THEN null
  ELSE OrElse(normalizePairingToken(candidates[i]), FirstToken(candidates, i + 1))

resolvePairingToken(loc, host) == FirstToken(Candidates(loc, host), 1)

\* ------------------------------------------------------------------------
\* Scanned-payload decoding (handleScannedCode, the deviceId it submits)
\* ------------------------------------------------------------------------

\* The text of a parsed value used as a device identifier.
TextOf(v) == IF v.t \in {"str", "num", "bool"} THEN v.s ELSE ObjectObject

\* deviceId after the try/catch: parsed.deviceId || scannedData when the
\* payload is JSON (reading a member of null throws, as a parse error does),
\* else scannedData.trim().
DeviceIdOf(parsed, scannedData) ==
  IF ~parsed.ok \/ parsed.v.t = "null" THEN trim(scannedData)
  ELSE IF Truthy(Prop(parsed.v, "deviceId")) THEN TextOf(Prop(parsed.v, "deviceId"))
  ELSE scannedData

DecodeDeviceId(scannedData) == DeviceIdOf(JSONparse(scannedData), scannedData)

\* ------------------------------------------------------------------------
\* Bounds and inputs of the flow
\* ------------------------------------------------------------------------
MaxSubs == 2

MaxScanners == 2

MaxStops == 2

MaxCalls == 2

SubIds == 1..MaxSubs

ScannerIds == 1..MaxScanners

ScanPayloads == {"{\"deviceId\":\"GAR-001\"}", "  ", "{\"deviceId\":\"  \"}"}

ManualInputs == {null, "", "  ", " GAR-001 "}

\* Outcomes of GET /api/pairing/token/{token}: a response below 400 with or
\* without data.token, a 4xx response, a rejection (5xx or network) with or
\* without response.data.error.
TokenOutcomes == {"ok", "notoken", "4xx", "err_msg", "err"}

\* Outcomes of POST /api/pairing/pair: data.ok true, data.ok false with or
\* without data.error, a rejection with or without response.data.error.
PairOutcomes == {"ok", "nok_msg", "nok", "err_msg", "err"}

\* The credentials that a pair response can carry in data.apiKey.
ApiKeys == {"key123", "key456"}

ServerError == "server says no"

ErrNoTokenFound == "No pairing token found. Please use the /pair command in the bot."

ErrNoTokenAvailable == "No pairing token available. Please use the /pair command in the bot."

ErrNoToken == "No pairing token available."

ErrCamera == "Failed to access camera. Please grant camera permissions."

ErrInvalidQr == "Invalid QR code format. Please scan the QR code from your Garmin watch."

ErrInvalidToken == "Pairing token is invalid or expired. Please use the /pair command in the bot to get a new pairing link."

ErrPairingFailed == "Pairing failed"

ErrGeneric == "Failed to pair device. Please try again."

SuccessText(apiKey) == "Device paired successfully! API Key: " \o apiKey

\* ------------------------------------------------------------------------
\* State
\* ------------------------------------------------------------------------
VARIABLES
  loc,           \* window.location.search
  host,          \* window.Telegram.WebApp, the members the page reads
  page,          \* "new" before the mount effect, "mounted", "unmounted"
  scanning,      \* useState(false)
  scanMethod,    \* useState(null): "telegram", "html5" or null
  error,         \* useState(null)
  success,       \* useState(null)
  pairingToken,  \* useState(null)
  loading,       \* useState(false)
  scannerRef,    \* scannerRef.current: a scanner id, 0 for null
  popupOpen,     \* the host's QR popup is shown and its callback may fire
  scanners,      \* per Html5Qrcode instance: "none", "starting", "running", "stopped", "failed"
  stops,         \* per instance: pending stop() promises of stopScanning
  cleanupStops,  \* instances with a pending stop() of the cleanup effect
  subs,          \* the pairDevice runs in flight, oldest first: pc, token,
                 \* deviceId, validated, and calls, its backend calls in flight
  last,          \* the handler that ran last and what it called
  resolved       \* results of the resolvePairingToken calls made so far

flow == <<page, scanning, scanMethod, error, success, pairingToken, loading,
          scannerRef, popupOpen, scanners, stops, cleanupStops, subs, last>>

vars == <<loc, host, page, scanning, scanMethod, error, success, pairingToken, loading,
          scannerRef, popupOpen, scanners, stops, cleanupStops, subs, last, resolved>>

\* The flow state as one value, so that a handler is a function of it.
Now ==
  [page |-> page, scanning |-> scanning, scanMethod |-> scanMethod, error |-> error,
   success |-> success, pairingToken |-> pairingToken, loading |-> loading,
   scannerRef |-> scannerRef, popupOpen |-> popupOpen, scanners |-> scanners,
   stops |-> stops, cleanupStops |-> cleanupStops, subs |-> subs, last |-> last]

\* An Html5Qrcode instance that has ended and that nothing refers to any more
\* is garbage: its slot is unused again.
Collected(st) ==
  [id \in ScannerIds |->
     IF /\ st.scanners[id] \in {"stopped", "failed"}
        /\ st.scannerRef # id
        /\ st.stops[id] = 0
        /\ id \notin st.cleanupStops
     THEN "none" ELSE st.scanners[id]]

Becomes(st) ==
  /\ page' = st.page
  /\ scanning' = st.scanning
  /\ scanMethod' = st.scanMethod
  /\ error' = st.error
  /\ success' = st.success
  /\ pairingToken' = st.pairingToken
  /\ loading' = st.loading
  /\ scannerRef' = st.scannerRef
  /\ popupOpen' = st.popupOpen
  /\ scanners' = Collected(st)
  /\ stops' = st.stops
  /\ cleanupStops' = st.cleanupStops
  /\ subs' = st.subs
  /\ last' = st.last

\* A useState setter: React drops the update once the page is unmounted.
Set(st, field, value) == IF st.page = "unmounted" THEN st ELSE [st EXCEPT ![field] = value]

setScanning(st, v) == Set(st, "scanning", v)

setScanMethod(st, v) == Set(st, "scanMethod", v)

setError(st, v) == Set(st, "error", v)

setSuccess(st, v) == Set(st, "success", v)

setPairingToken(st, v) == Set(st, "pairingToken", v)

setLoading(st, v) == Set(st, "loading", v)

\* What the last handler did: op its name, closed whether it called
\* closeScanQrPopup, stopOn the scanner it called stop() on (0: none),
\* resolver whether it called resolvePairingToken, pair how its pairDevice
\* call went ("none": no call, "refused": no token, "submitted").
Op(name) == [op |-> name, closed |-> FALSE, stopOn |-> 0, resolver |-> FALSE, pair |-> "none"]

\* The handler named name starts to run.
Enter(st, name) == [st EXCEPT !.last = Op(name)]

\* window.Telegram?.WebApp?.closeScanQrPopup?.()
closeScanQrPopup(st) == [st EXCEPT !.popupOpen = FALSE, !.last.closed = TRUE]

\* ------------------------------------------------------------------------
\* Handlers, each a function of the flow state
\* ------------------------------------------------------------------------

\* The mount effect after its call of resolvePairingToken.
mountedWith(st, token) ==
  IF TruthyStr(token) THEN setPairingToken(st, token)
  ELSE IF host.user THEN st
  ELSE setError(st, ErrNoTokenFound)

\* The mount effect.
mountEffect(st) ==
  mountedWith([st EXCEPT !.page = "mounted", !.last.resolver = TRUE],
              resolvePairingToken(loc, host))

\* The scanner id that new Html5Qrcode() gets: an unused one, or one whose
\* instance is finished and that nothing refers to any more.
Reusable(st, id) ==
  /\ st.scanners[id] \in {"none", "stopped", "failed"}
  /\ st.scannerRef # id
  /\ st.stops[id] = 0
  /\ id \notin st.cleanupStops

HasFreeScanner(st) == \E id \in ScannerIds : Reusable(st, id)

FreeScanner(st) == CHOOSE id \in ScannerIds : Reusable(st, id) /\ \A j \in 1..(id - 1) : ~Reusable(st, j)

HasFreeSub(st) == Len(st.subs) < MaxSubs

\* The sequence seq without its element i.
Without(seq, i) == SubSeq(seq, 1, i - 1) \o SubSeq(seq, i + 1, Len(seq))

\* stopScanning as the closure that runs it sees it: method is the
\* scanMethod of the render that created the closure.
stopScanning(st, method) ==
  IF method = "telegram"
  THEN setScanMethod(setScanning(closeScanQrPopup(st), FALSE), null)
  ELSE IF st.scannerRef # 0
  THEN [st EXCEPT !.stops[st.scannerRef] = @ + 1, !.last.stopOn = st.scannerRef]
  ELSE setScanMethod(setScanning(st, FALSE), null)

\* IssuedOnEntry with the pair call sent along with the token check.
IssuedBothOnEntry == {"GET", "POST"}

\* The calls that pairDevice issues when it enters its try block.
IssuedOnEntry == {"GET"}

\* pairDevice from its second token test (line 287) to its first await.
pairWith(st, normalized, deviceId) ==
  IF ~TruthyStr(normalized) \/ normalized = ObjectObject
  THEN [setError(st, ErrNoToken) EXCEPT !.last.pair = "refused"]
  ELSE [setError(setLoading(st, TRUE), null) EXCEPT
          !.last.pair = "submitted",
          !.subs = Append(@, [pc |-> "validating", token |-> normalized,
                              deviceId |-> deviceId, validated |-> FALSE,
                              calls |-> IssuedOnEntry])]

\* Lines 281 to 284: the token resolved again is held when there is one.
pairResolved(st, again, deviceId) ==
  pairWith(IF TruthyStr(again) THEN setPairingToken(st, again) ELSE st, again, deviceId)

\* The held token is resolved again when it is empty or the marker.
NeedsResolve(held) == ~TruthyStr(held) \/ held = ObjectObject

\* pairDevice up to its first await.
pairDevice(st, deviceId) ==
  IF NeedsResolve(st.pairingToken)
  THEN pairResolved([st EXCEPT !.last.resolver = TRUE],
                    resolvePairingToken(loc, host), deviceId)
  ELSE pairWith(st, st.pairingToken, deviceId)

\* handleScannedCode after stopScanning() and the decoding of the payload.
submitScanned(st, deviceId) ==
  IF deviceId = "" THEN setError(st, ErrInvalidQr) ELSE pairDevice(st, deviceId)

\* handleScannedCode up to the first await of pairDevice. The closure is the
\* one of the render in which the scan was started, where scanMethod is null.
handleScannedCode(st, scannedData) ==
  submitScanned(stopScanning(st, null), DecodeDeviceId(scannedData))

\* startScanning without the feature detection: the camera scanner is used
\* whether or not the host has a QR popup.
startScanningCameraOnly(st, ctorOk) ==
  IF ~TruthyStr(st.pairingToken) THEN setError(st, ErrNoTokenAvailable)
  ELSE IF ~ctorOk
  THEN setScanMethod(setScanning(setError(st, ErrCamera), FALSE), null)
  ELSE [setScanMethod(setScanning(setError(st, null), TRUE), "html5") EXCEPT
          !.scannerRef = FreeScanner(st), !.scanners[FreeScanner(st)] = "starting"]

\* startScanning up to its await; ctorOk is whether new Html5Qrcode() returns.
startScanning(st, ctorOk) ==
  IF ~TruthyStr(st.pairingToken) THEN setError(st, ErrNoTokenAvailable)
  ELSE LET st1 == setError(st, null) IN
    IF host.showScanQrPopup
    THEN [setScanMethod(setScanning(st1, TRUE), "telegram") EXCEPT !.popupOpen = TRUE]
    ELSE IF ~ctorOk
    THEN setScanMethod(setScanning(setError(st1, ErrCamera), FALSE), null)
    ELSE LET id == FreeScanner(st)
         IN [setScanMethod(setScanning(st1, TRUE), "html5") EXCEPT
               !.scannerRef = id, !.scanners[id] = "starting"]

\* popupCallback with a cancellation that only resets the scan state and
\* leaves the closing of the popup to the host.
popupCallbackCancelKeepsPopup(st, data) ==
  IF ~TruthyStr(data) THEN setScanMethod(setScanning(st, FALSE), null)
  ELSE handleScannedCode(setScanMethod(setScanning(closeScanQrPopup(st), FALSE), null), data)

\* The callback given to showScanQrPopup.
popupCallback(st, data) ==
  LET st1 == setScanMethod(setScanning(closeScanQrPopup(st), FALSE), null)
  IN IF ~TruthyStr(data) THEN st1 ELSE handleScannedCode(st1, data)

\* startFailed that reports the error and leaves the scan state as it is.
startFailedKeepsScanning(st) == setError(st, ErrCamera)

\* startFailed that resets the scanning flag and leaves the recorded strategy.
startFailedKeepsMethod(st) == setScanning(setError(st, ErrCamera), FALSE)

\* The catch block of startScanning.
startFailed(st) == setScanMethod(setScanning(setError(st, ErrCamera), FALSE), null)

\* stopSettled that keeps the scan session when stop() did not succeed: the
\* reference and the scanning state are left for another attempt.
stopSettledKeepsSession(st) == st

\* The then and the catch callback of stopScanning: the same three updates.
stopSettled(st) == setScanMethod(setScanning([st EXCEPT !.scannerRef = 0], FALSE), null)

\* handleManualEntry that submits the entered text as it was typed.
handleManualEntryUntrimmed(st, deviceId) ==
  IF TruthyStr(deviceId) /\ trim(deviceId) # "" THEN pairDevice(st, deviceId) ELSE st

handleManualEntry(st, deviceId) ==
  IF TruthyStr(deviceId) /\ trim(deviceId) # "" THEN pairDevice(st, trim(deviceId)) ELSE st

\* The cleanup of the unmount effect. With the page gone its useState values
\* are gone too: they are put back to their initial values, apart from
\* pairingToken, which the closures of pending callbacks still hold.
cleanupEffect(st) ==
  LET st1 == IF st.scannerRef # 0
             THEN [st EXCEPT !.cleanupStops = @ \cup {st.scannerRef},
                             !.last.stopOn = st.scannerRef]
             ELSE st
  IN [closeScanQrPopup(st1) EXCEPT
        !.page = "unmounted", !.scanning = FALSE, !.scanMethod = null,
        !.error = null, !.success = null, !.loading = FALSE]

\* afterTokenCheck with a test of the status alone: a response below 400
\* goes on to the pair call whether or not it carries data.token.
afterTokenCheckStatusOnly(st, s, outcome) ==
  LET st1 == [st EXCEPT !.subs[s].calls = @ \ {"GET"}]
      end(t) == [setLoading(t, FALSE) EXCEPT !.subs = Without(@, s)]
  IN CASE outcome \in {"ok", "notoken"} ->
            [st1 EXCEPT !.subs[s].pc = "pairing", !.subs[s].validated = TRUE,
                        !.subs[s].calls = @ \cup {"POST"}]
       [] outcome = "4xx" -> end(setError(st1, ErrInvalidToken))
       [] outcome = "err_msg" -> end(setError(st1, ServerError))
       [] OTHER -> end(setError(st1, ErrGeneric))

\* pairDevice from the token-check response to its next await or its end.
afterTokenCheck(st, s, outcome) ==
  LET st1 == [st EXCEPT !.subs[s].calls = @ \ {"GET"}]
      end(t) == [setLoading(t, FALSE) EXCEPT !.subs = Without(@, s)]
  IN CASE outcome = "ok" ->
            [st1 EXCEPT !.subs[s].pc = "pairing", !.subs[s].validated = TRUE,
                        !.subs[s].calls = @ \cup {"POST"}]
       [] outcome \in {"notoken", "4xx"} -> end(setError(st1, ErrInvalidToken))
       [] outcome = "err_msg" -> end(setError(st1, ServerError))
       [] OTHER -> end(setError(st1, ErrGeneric))

\* afterPair that shows its own texts and never the text of the server.
afterPairOwnTextsOnly(st, s, outcome, apiKey) ==
  LET st1 == [st EXCEPT !.subs[s].calls = @ \ {"POST"}]
      end(t) == [setLoading(t, FALSE) EXCEPT !.subs = Without(@, s)]
  IN CASE outcome = "ok" -> end(setSuccess(st1, SuccessText(apiKey)))
       [] outcome \in {"nok_msg", "nok"} -> end(setError(st1, ErrPairingFailed))
       [] OTHER -> end(setError(st1, ErrGeneric))

\* afterPair with a success text that shows a fixed credential and not the
\* one of the response.
afterPairFixedKey(st, s, outcome, apiKey) ==
  LET st1 == [st EXCEPT !.subs[s].calls = @ \ {"POST"}]
      end(t) == [setLoading(t, FALSE) EXCEPT !.subs = Without(@, s)]
  IN CASE outcome = "ok" -> end(setSuccess(st1, SuccessText("key123")))
       [] outcome = "nok_msg" -> end(setError(st1, ServerError))
       [] outcome = "nok" -> end(setError(st1, ErrPairingFailed))
       [] outcome = "err_msg" -> end(setError(st1, ServerError))
       [] OTHER -> end(setError(st1, ErrGeneric))

\* pairDevice from the pair response to its end; apiKey is data.apiKey of a
\* response with data.ok.
afterPair(st, s, outcome, apiKey) ==
  LET st1 == [st EXCEPT !.subs[s].calls = @ \ {"POST"}]
      end(t) == [setLoading(t, FALSE) EXCEPT !.subs = Without(@, s)]
  IN CASE outcome = "ok" -> end(setSuccess(st1, SuccessText(apiKey)))
       [] outcome = "nok_msg" -> end(setError(st1, ServerError))
       [] outcome = "nok" -> end(setError(st1, ErrPairingFailed))
       [] outcome = "err_msg" -> end(setError(st1, ServerError))
       [] OTHER -> end(setError(st1, ErrGeneric))

\* Html5Qrcode.stop(): it can resolve only on a running instance.
StopOutcomes(status) == IF status = "running" THEN {"resolve", "reject"} ELSE {"reject"}

\* ------------------------------------------------------------------------
\* What the render offers
\* ------------------------------------------------------------------------

\* The scan and manual-entry buttons: shown when there is no success and no
\* scan, enabled when a token is held and nothing is loading.
EntryButtonsEnabled ==
  /\ page = "mounted"
  /\ success = null
  /\ ~scanning
  /\ TruthyStr(pairingToken)
  /\ ~loading

\* The error card: {error && !success && ...}.
ErrorCardShown == page = "mounted" /\ error # null /\ success = null

\* The success card, {success && ...}, and its Done button.
SuccessCardShown == page = "mounted" /\ success # null

\* The Cancel / Stop Scanning button.
StopButtonShown == page = "mounted" /\ success = null /\ scanning

\* ------------------------------------------------------------------------
\* Initial states
\* ------------------------------------------------------------------------
Host(sp, sP, sa, data, popup, user) ==
  [start_param |-> sp, startParam |-> sP, startapp |-> sa, initData |-> data,
   showScanQrPopup |-> popup, user |-> user]

\* Ambient contexts of the flow: a link with a token, with and without the
\* host's popup; a link whose token parameter is too short for the token
\* shape; no link at all, with and without the host's user.
NoHost(popup, user) == Host(Undefined, Undefined, Undefined, Undefined, popup, user)

FlowAmbients ==
  { <<"?token=tok_9f8e", NoHost(FALSE, FALSE)>>,
    <<"?token=tok_9f8e", NoHost(TRUE, TRUE)>>,
    <<"?token=abc", NoHost(TRUE, FALSE)>>,
    <<"", NoHost(FALSE, FALSE)>>,
    <<"", NoHost(TRUE, TRUE)>> }

InitFlow ==
  /\ page = "new"
  /\ scanning = FALSE
  /\ scanMethod = null
  /\ error = null
  /\ success = null
  /\ pairingToken = null
  /\ loading = FALSE
  /\ scannerRef = 0
  /\ popupOpen = FALSE
  /\ scanners = [id \in ScannerIds |-> "none"]
  /\ stops = [id \in ScannerIds |-> 0]
  /\ cleanupStops = {}
  /\ subs = <<>>
  /\ last = Op("init")
  /\ resolved = <<>>

Init ==
  /\ \E a \in FlowAmbients : loc = a[1] /\ host = a[2]
  /\ InitFlow

\* ------------------------------------------------------------------------
\* Actions
\* ------------------------------------------------------------------------
Frame == UNCHANGED <<loc, host, resolved>>

Mount ==
  /\ page = "new"
  /\ Becomes(mountEffect(Enter(Now, "mount")))
  /\ Frame

\* A click on "Scan QR Code".
StartScan ==
  /\ EntryButtonsEnabled
  /\ host.showScanQrPopup \/ HasFreeScanner(Now)
  /\ \E ctorOk \in BOOLEAN : Becomes(startScanning(Enter(Now, "startScanning"), ctorOk))
  /\ Frame

\* html5QrCode.start() settles: the camera runs, or the await throws.
CameraStart(id, ok) ==
  /\ scanners[id] = "starting"
  /\ LET st == Enter(Now, "cameraStart")
     IN IF ok THEN Becomes([st EXCEPT !.scanners[id] = "running"])
        ELSE Becomes(startFailed([st EXCEPT !.scanners[id] = "failed"]))
  /\ Frame

\* A running scanner reports a decoded text.
Decode(id, text) ==
  /\ scanners[id] = "running"
  /\ HasFreeSub(Now)
  /\ scannerRef # 0 => stops[scannerRef] < MaxStops
  /\ Becomes(handleScannedCode(Enter(Now, "decode"), text))
  /\ Frame

\* The host calls the popup callback, with a text, or with null or the empty
\* text when the user cancelled.
PopupResult(data) ==
  /\ popupOpen
  /\ HasFreeSub(Now)
  /\ scannerRef # 0 => stops[scannerRef] < MaxStops
  /\ Becomes(popupCallback(Enter(Now, "popupCallback"), data))
  /\ Frame

\* A click on "Cancel" or "Stop Scanning".
ClickStop ==
  /\ StopButtonShown
  /\ scannerRef # 0 => stops[scannerRef] < MaxStops
  /\ Becomes(stopScanning(Enter(Now, "stopScanning"), scanMethod))
  /\ Frame

\* A stop() promise of stopScanning settles.
StopSettle(id, outcome) ==
  /\ stops[id] > 0
  /\ outcome \in StopOutcomes(scanners[id])
  /\ LET st == [Enter(Now, "stopSettle") EXCEPT
                  !.stops[id] = @ - 1,
                  !.scanners[id] = IF outcome = "resolve" THEN "stopped" ELSE @]
     IN Becomes(stopSettled(st))
  /\ Frame

\* The stop() promise of the cleanup effect settles; its error is swallowed.
CleanupStopSettle(id, outcome) ==
  /\ id \in cleanupStops
  /\ outcome \in StopOutcomes(scanners[id])
  /\ Becomes([Enter(Now, "cleanupSettle") EXCEPT
                !.cleanupStops = @ \ {id},
                !.scanners[id] = IF outcome = "resolve" THEN "stopped" ELSE @])
  /\ Frame

\* A click on "Enter Device ID Manually" and the answer to the prompt.
ManualEntry(input) ==
  /\ EntryButtonsEnabled
  /\ HasFreeSub(Now)
  /\ Becomes(handleManualEntry(Enter(Now, "manualEntry"), input))
  /\ Frame

\* The token-check call of submission s settles.
TokenResponse(s, outcome) ==
  /\ s \in DOMAIN subs
  /\ subs[s].pc = "validating"
  /\ Becomes(afterTokenCheck(Enter(Now, "tokenResponse"), s, outcome))
  /\ Frame

\* The pair call of submission s settles.
PairResponse(s, outcome, apiKey) ==
  /\ s \in DOMAIN subs
  /\ subs[s].pc = "pairing"
  /\ Becomes(afterPair(Enter(Now, "pairResponse"), s, outcome, apiKey))
  /\ Frame

\* A click on "Done": setSuccess(null), then onBack() unmounts the page.
ClickDone ==
  /\ SuccessCardShown
  /\ Becomes(cleanupEffect(setSuccess(Enter(Now, "done"), null)))
  /\ Frame

\* A click on "Back": onBack() unmounts the page.
ClickBack ==
  /\ page = "mounted"
  /\ Becomes(cleanupEffect(Enter(Now, "back")))
  /\ Frame

Next ==
  \/ Mount
  \/ StartScan
  \/ \E id \in ScannerIds, ok \in BOOLEAN : CameraStart(id, ok)
  \/ \E id \in ScannerIds, text \in ScanPayloads : Decode(id, text)
  \/ \E data \in ScanPayloads \cup {null, ""} : PopupResult(data)
  \/ ClickStop
  \/ \E id \in ScannerIds, outcome \in {"resolve", "reject"} : StopSettle(id, outcome)
  \/ \E id \in ScannerIds, outcome \in {"resolve", "reject"} : CleanupStopSettle(id, outcome)
  \/ \E input \in ManualInputs : ManualEntry(input)
  \/ \E s \in SubIds, outcome \in TokenOutcomes : TokenResponse(s, outcome)
  \/ \E s \in SubIds, outcome \in PairOutcomes, apiKey \in ApiKeys :
       PairResponse(s, outcome, apiKey)
  \/ ClickDone
  \/ ClickBack

Spec == Init /\ [][Next]_vars

\* The backend answers the oldest submission in flight: its token check or
\* its pair call settles.
OldestAnswered ==
  \/ \E outcome \in TokenOutcomes : TokenResponse(1, outcome)
  \/ \E outcome \in PairOutcomes, apiKey \in ApiKeys : PairResponse(1, outcome, apiKey)

\* The flow with a backend that answers every call: a call that stays
\* pending is answered at some time, with a response or with a rejection.
SpecLive == Spec /\ WF_vars(OldestAnswered)

\* ------------------------------------------------------------------------
\* The resolver on its own: resolvePairingToken called up to MaxCalls times
\* in each of a wider set of ambient contexts.
\* ------------------------------------------------------------------------
JsonToken(t) == "{\"token\":\"" \o t \o "\"}"

\* Values of the token shape: letters, with "_", digits only, with "token"
\* inside, and one that is also the base64 text of a JSON object.
ShapedTokens == {"abcdef", "tok_9f8e", "123456", "token_9", btoa(JsonToken("abcdef"))}

\* Tokens that the host start-parameter carries as base64 of {"token": T}.
Base64Subjects == {"abcdef", "tok_9f8e", "abc-123_X"}

QueryValues ==
  ShapedTokens \cup
  {"", "abc", ObjectObject, " [object Object] ", JsonToken("tok_9f8e"),
   btoa(JsonToken("tok_9f8e")), "\"tok_9f8e\""}

ResolveLocs ==
  {"", "?foo=bar"}
    \cup {"?token=" \o FormEncode(v) : v \in QueryValues}
    \cup {"?start_param=" \o FormEncode(v) : v \in QueryValues}
    \cup {"?token=" \o FormEncode(a) \o "&start_param=" \o FormEncode(b) :
            a \in {"", ObjectObject, "tok_9f8e"}, b \in {"abcdef", ObjectObject}}

\* The nesting of normalize calls that the specified depth guard allows.
DepthCap == 5

\* The value v inside n levels of the query form token=<value>, each of
\* which costs the normalizer one recursive call to take off: the value of a
\* query parameter is what follows the first "=".
RECURSIVE Wrapped(_, _)
Wrapped(v, n) == IF n = 0 THEN v ELSE "token=" \o Wrapped(v, n - 1)

HostStartParams ==
  {Undefined, Str("host_tok1"), Str(ObjectObject), Obj(<< <<"token", Str("obj_tok1")>> >>),
   Str(Wrapped("deep_tok7", DepthCap + 1))}
    \cup {Str(btoa(JsonToken(t))) : t \in Base64Subjects}

ResolveHosts ==
  {Host(sp, sP, sa, data, FALSE, FALSE) :
     sp \in HostStartParams,
     sP \in {Undefined, Str("camel_tok")},
     sa \in {Undefined, Str(ObjectObject)},
     data \in {Undefined,
               Str("query_id=AAH&user=%7B%22id%22%3A1%7D&hash=abc"),
               Str("user=x&start_param=init_tok1&hash=abc")}}

InitResolve ==
  /\ loc \in ResolveLocs
  /\ host \in ResolveHosts
  /\ InitFlow

\* ResolveCall with a resolver that takes the query off the location once it
\* has read it.
ResolveCallConsuming ==
  /\ Len(resolved) < MaxCalls
  /\ resolved' = Append(resolved, resolvePairingToken(loc, host))
  /\ loc' = ""
  /\ host' = host
  /\ UNCHANGED flow

\* One call of resolvePairingToken(); its result is kept in resolved.
ResolveCall ==
  /\ Len(resolved) < MaxCalls
  /\ resolved' = Append(resolved, resolvePairingToken(loc, host))
  /\ UNCHANGED <<loc, host>>
  /\ UNCHANGED flow

SpecResolve == InitResolve /\ [][ResolveCall]_vars

\* ------------------------------------------------------------------------
\* Properties of the pairing flow (Spec)
\* ------------------------------------------------------------------------

\* C1: a submission's pair call (POST) is in flight only after its
\* token-check call (GET) has come back with a usable token; the two calls of
\* one submission are never in flight together.
C1_PairOnlyAfterTokenCheck ==
  \A s \in DOMAIN subs :
    "POST" \in subs[s].calls => (subs[s].validated /\ "GET" \notin subs[s].calls)

C1_PairCallInFlight ==
  \E s \in DOMAIN subs : "POST" \in subs[s].calls /\ subs[s].pc = "pairing"

\* An Html5Qrcode instance that holds the camera or is about to.
Live(id) == scanners[id] \in {"starting", "running"}

\* C2: at most one scan session is active at any time: never two camera
\* scanners started and not yet ended, and never a camera scanner beside the
\* open host popup; a scan start while one is active acquires no second one.
C2_AtMostOneScanSession ==
  Cardinality({id \in ScannerIds : Live(id)}) + (IF popupOpen THEN 1 ELSE 0) <= 1

\* C3: the page never holds an error message and a success message at the
\* same time.
C3_ErrorAndSuccessExclusive == ~(error # null /\ success # null)

\* C4: every pairing token sent to the backend (in the token check and in the
\* pair request) matches the token shape.
C4_SentTokensMatchShape ==
  \A s \in DOMAIN subs : MatchesTokenShape(subs[s].token)

\* C5: a pairDevice call that finds the held token missing or not of the
\* token shape calls the resolver again, and when the page still holds no
\* token of the shape afterwards it has stopped with the no-token error and
\* has sent nothing.
C5_BadTokenIsResolvedAgain ==
  (page = "mounted" /\ last.pair # "none" /\ ~MatchesTokenShape(pairingToken))
    => (last.resolver /\ last.pair = "refused" /\ error = ErrNoToken)

\* ------------------------------------------------------------------------
\* Properties of the resolver (SpecResolve)
\* ------------------------------------------------------------------------

\* The sources of a token in the order the page documents them.
QueryParam(name) == ParamsGet(URLSearchParams(loc), name)

NumSources == 7

Source(i) ==
  CASE i = 1 -> FromParam(QueryParam("token"))
    [] i = 2 -> FromParam(QueryParam("start_param"))
    [] i = 3 -> host.start_param
    [] i = 4 -> host.startParam
    [] i = 5 -> host.startapp
    [] i = 6 -> host.initData
    [] i = 7 -> Str(ParamsToString(URLSearchParams(loc)))

Normalized(i) == normalizePairingToken(Source(i))

\* The normalization of the first source from position i on, position skip
\* left out, that normalizes to a token; null when there is none.
RECURSIVE FirstWinner(_, _)
FirstWinner(i, skip) ==
  IF i > NumSources THEN null
  ELSE LET n == IF i = skip THEN null ELSE Normalized(i)
       IN IF TruthyStr(n) THEN n ELSE FirstWinner(i + 1, skip)

\* C6: the resolver returns the normalization of the first source, in the
\* order query token, query start_param, host start_param, host startParam,
\* host startapp, host initData, whole query string, whose normalization is
\* not null; null when there is none.
C6_FirstSourceWins ==
  \A k \in DOMAIN resolved :
    resolved[k] = FirstWinner(1, 0)

C6_LaterSourcesDiffer ==
  /\ Len(resolved) > 0
  /\ Normalized(1) = null
  /\ Normalized(2) # null
  /\ Normalized(3) # null
  /\ Normalized(3) # Normalized(2)
  /\ resolved[1] = Normalized(2)

\* C7: a query parameter token whose value has the token shape is what the
\* resolver returns, unchanged.
C7_ShapedQueryTokenUnchanged ==
  \A k \in DOMAIN resolved :
    MatchesTokenShape(QueryParam("token")) => resolved[k] = QueryParam("token")

C7_ShapedQueryTokenBesideHostToken ==
  /\ Len(resolved) > 0
  /\ QueryParam("token") = btoa(JsonToken("abcdef"))
  /\ host.start_param = Str("host_tok1")
  /\ resolved[1] = QueryParam("token")

\* C8: with no token from the query parameters, a host start-parameter that
\* is the base64 text of {"token": T}, T of the token shape, resolves to T.
C8_Base64StartParamDecoded ==
  \A k \in DOMAIN resolved : \A t \in Base64Subjects :
    ( /\ MatchesTokenShape(t)
      /\ host.start_param = Str(btoa(JsonToken(t)))
      /\ Normalized(1) = null
      /\ Normalized(2) = null )
      => resolved[k] = t

\* C9: a source whose text is the stringified-object marker is passed over:
\* the result is never the marker, and it is what the other sources give.
IsMarker(v) == v.t = "str" /\ trim(v.s) = ObjectObject

C9_MarkerSourceSkipped ==
  \A k \in DOMAIN resolved :
    /\ resolved[k] # ObjectObject
    /\ \A i \in 1..NumSources :
         IsMarker(Source(i)) =>
           resolved[k] = FirstWinner(1, i)

C9_MarkerThenToken ==
  /\ Len(resolved) > 0
  /\ IsMarker(Source(1))
  /\ Normalized(2) # null
  /\ resolved[1] = Normalized(2)

C11_RejectedTokenEndsSubmission ==
  [][\A s \in SubIds, outcome \in {"4xx", "notoken"} :
       (TokenResponse(s, outcome) /\ page' = "mounted")
         => /\ error' = ErrInvalidToken
            /\ loading' = FALSE
            /\ "POST" \notin subs[s].calls
            /\ subs' = Without(subs, s)]_vars

C11_TokenRejected ==
  /\ page = "mounted"
  /\ last.op = "tokenResponse"
  /\ error = ErrInvalidToken
  /\ ~loading
  /\ subs = <<>>

\* C12: success is populated exactly by a pair response with data.ok of a
\* submission whose token check was confirmed: such a response leaves the
\* mounted page with the success text that shows the apiKey of that response,
\* a pair response of any other kind leaves success as it was, and no other
\* step puts a text into success.
C12_SuccessIffConfirmedAndPaired ==
  [][/\ \A s \in SubIds, apiKey \in ApiKeys :
          (PairResponse(s, "ok", apiKey) /\ page' = "mounted")
            => (subs[s].validated /\ success' = SuccessText(apiKey))
     /\ \A s \in SubIds, outcome \in PairOutcomes \ {"ok"}, apiKey \in ApiKeys :
          PairResponse(s, outcome, apiKey) => success' = success
     /\ (success' # success /\ success' # null)
          => \E s \in SubIds, apiKey \in ApiKeys :
               /\ PairResponse(s, "ok", apiKey)
               /\ subs[s].validated
               /\ success' = SuccessText(apiKey)]_vars

C12_PairedWithSecondKey ==
  /\ page = "mounted"
  /\ last.op = "pairResponse"
  /\ success = SuccessText("key456")
  /\ subs = <<>>

\* C13: with the native popup strategy active, a popup callback that gets
\* null or the empty text puts the flow back to idle (not scanning, no scan
\* method, nothing loading), calls the host's closeScanQrPopup, and starts no
\* submission: no backend call is in flight afterwards.
C13_PopupCancelReturnsToIdle ==
  [][\A data \in {null, ""} :
       PopupResult(data)
         => /\ scanMethod = "telegram"
            /\ ~scanning'
            /\ scanMethod' = null
            /\ ~loading'
            /\ last'.closed
            /\ ~popupOpen'
            /\ subs' = <<>>
            /\ last'.pair = "none"
            /\ error' = error
            /\ success' = success]_vars

C13_PopupCancelled ==
  /\ page = "mounted"
  /\ last.op = "popupCallback"
  /\ last.closed
  /\ last.pair = "none"
  /\ error = null
  /\ ~scanning
  /\ scanMethod = null
  /\ ~popupOpen

\* C14: every run of stopScanning from the Cancel / Stop Scanning button
\* attempts both releases, whatever scan method is recorded: it calls the
\* host's closeScanQrPopup, and it calls stop() on the scanner that
\* scannerRef holds when there is one.
C14_StopAttemptsBothReleases ==
  last.op = "stopScanning"
    => (last.closed /\ (scannerRef # 0 => last.stopOn = scannerRef))

\* C15: a camera scanner is held only in the in-page scanning state: when
\* the page is not scanning with the html5 method, no Html5Qrcode instance is
\* starting or running, apart from one that the teardown has called stop()
\* on and whose stop has not settled yet.
C15_ScannerReleasedOnEveryExit ==
  \A id \in ScannerIds :
    Live(id) => \/ (page = "mounted" /\ scanning /\ scanMethod = "html5")
                \/ id \in cleanupStops

\* C16: a manual entry that is not empty after trimming starts a submission
\* from the idle page with the trimmed text as device identifier, and no scan
\* state is entered: scanning stays false, no scan method, no popup and no
\* scanner. A cancelled prompt (null), an empty or a whitespace-only entry
\* starts no submission and leaves every field of the flow as it was.
C16_ManualEntryBypassesScanning ==
  [][\A input \in ManualInputs :
       ManualEntry(input)
         => IF input # null /\ trim(input) # ""
            THEN /\ ~scanning /\ ~loading
                 /\ Len(subs') = Len(subs) + 1
                 /\ subs'[Len(subs')].deviceId = trim(input)
                 /\ subs'[Len(subs')].calls = {"GET"}
                 /\ loading'
                 /\ ~scanning'
                 /\ scanMethod' = scanMethod
                 /\ popupOpen' = popupOpen
                 /\ scannerRef' = scannerRef
                 /\ scanners' = scanners
            ELSE UNCHANGED <<page, scanning, scanMethod, error, success, pairingToken,
                             loading, scannerRef, popupOpen, scanners, stops,
                             cleanupStops, subs>>]_vars

C16_ManualEntrySubmitted ==
  /\ page = "mounted"
  /\ last.op = "manualEntry"
  /\ last.pair = "submitted"
  /\ ~scanning
  /\ loading
  /\ Len(subs) = 1
  /\ subs[1].deviceId = "GAR-001"

\* C17: no pair request (POST) is in flight with a device identifier that
\* is empty after trimming.
C17_PairedDeviceIdNotBlank ==
  \A s \in DOMAIN subs : "POST" \in subs[s].calls => trim(subs[s].deviceId) # ""

\* The decoding of a scanned payload as specified: the trimmed deviceId
\* field when the payload is a JSON object with such a field, the trimmed
\* payload otherwise.
SpecifiedDeviceIdOf(parsed, raw) ==
  IF parsed.ok /\ Prop(parsed.v, "deviceId").t # "undef"
  THEN trim(TextOf(Prop(parsed.v, "deviceId")))
  ELSE trim(raw)

SpecifiedDeviceId(raw) == SpecifiedDeviceIdOf(JSONparse(raw), raw)

\* C18: a payload handed to handleScannedCode, by the camera scanner or by
\* the host popup, is decoded as specified: when the specified identifier is
\* empty the mounted page gets the invalid-QR-code error and no submission is
\* started, otherwise the submission that is started carries the specified
\* identifier.
C18_PayloadDecodedAsSpecified ==
  [][\A text \in ScanPayloads :
       (/\ PopupResult(text) \/ \E id \in ScannerIds : Decode(id, text)
        /\ page' = "mounted")
         => IF SpecifiedDeviceId(text) = ""
            THEN error' = ErrInvalidQr /\ subs' = subs /\ last'.pair = "none"
            ELSE /\ Len(subs') = Len(subs) + 1
                 /\ subs'[Len(subs')].deviceId = SpecifiedDeviceId(text)]_vars

\* C19: a scan start picks its strategy by what the host offers at that
\* moment. With showScanQrPopup the popup is opened, the method is
\* "telegram", and no Html5Qrcode is created or started. Without it no popup
\* method is called, and either a new Html5Qrcode is started and held under
\* the method "html5" or its creation failed with the camera error. The popup
\* is never open while an Html5Qrcode is starting or running.
C19_OneStrategyByFeatureDetection ==
  [][/\ StartScan
          => IF host.showScanQrPopup
             THEN /\ scanning' /\ scanMethod' = "telegram" /\ popupOpen'
                  /\ scannerRef' = scannerRef
                  /\ \A id \in ScannerIds :
                       scanners'[id] = "starting" => scanners[id] = "starting"
             ELSE /\ ~popupOpen' /\ ~last'.closed
                  /\ \/ /\ scanning' /\ scanMethod' = "html5"
                        /\ scannerRef' \in ScannerIds
                        /\ scanners[scannerRef'] \notin {"starting", "running"}
                        /\ scanners'[scannerRef'] = "starting"
                        /\ \A id \in ScannerIds \ {scannerRef'} :
                             scanners'[id] = "starting" => scanners[id] = "starting"
                     \/ /\ ~scanning' /\ scanMethod' = null
                        /\ error' = ErrCamera
                        /\ \A id \in ScannerIds :
                             scanners'[id] = "starting" => scanners[id] = "starting"
     /\ ~(popupOpen' /\ \E id \in ScannerIds : scanners'[id] \in {"starting", "running"})]_vars

C19_NativeStrategyChosen ==
  /\ last.op = "startScanning"
  /\ host.showScanQrPopup
  /\ popupOpen
  /\ scanning
  /\ scanMethod = "telegram"
  /\ \A id \in ScannerIds : scanners[id] = "none"

\* C20: at most one submission is in flight, and while a backend call of a
\* submission is in flight the mounted page has loading true.
C20_OneSubmissionAndLoading ==
  /\ Len(subs) <= 1
  /\ (page = "mounted" /\ subs # <<>>) => loading

\* ------------------------------------------------------------------------
\* Properties of the gates, of the outcomes and of the interleavings (Spec)
\* ------------------------------------------------------------------------

\* C21: a scan start happens only on an idle page that holds a token: the
\* page is not scanning, nothing is loading and no submission is in flight.
\* Where no token is held the scan button is not enabled, and startScanning,
\* were it called, would set the no-token error and leave the scan state, the
\* popup and the scanners as they are.
C21_ScanStartOnlyFromIdleWithToken ==
  [][/\ StartScan
          => /\ TruthyStr(pairingToken)
             /\ ~scanning
             /\ ~loading
             /\ subs = <<>>
     /\ ~TruthyStr(pairingToken)
          => /\ ~EntryButtonsEnabled
             /\ startScanning(Now, TRUE).error = ErrNoTokenAvailable
             /\ startScanning(Now, TRUE).scanning = scanning
             /\ startScanning(Now, TRUE).scanMethod = scanMethod
             /\ startScanning(Now, TRUE).scanners = scanners
             /\ startScanning(Now, TRUE).scannerRef = scannerRef
             /\ startScanning(Now, TRUE).popupOpen = popupOpen]_vars

\* C22: success is terminal. From a state of the mounted page with success
\* populated, a step that does not acknowledge it (success stays populated)
\* is no scan start and no manual entry, starts no submission, sends no pair
\* request, and sets no error message.
C22_SuccessIsTerminal ==
  [][(page = "mounted" /\ success # null /\ success' # null)
       => /\ last'.op \notin {"startScanning", "manualEntry"}
          /\ last'.pair # "submitted"
          /\ ~\E s \in SubIds : TokenResponse(s, "ok")
          /\ error' \in {error, null}]_vars

\* C23: with a backend that answers every call, every submission ends:
\* again and again no submission is in flight, or the oldest one ends. A
\* submission that ends on the mounted page leaves loading false and a
\* success text or an error message. There is no timeout: as long as a call
\* is pending and no response arrives, loading stays true and no message of
\* a failed submission is set.
C23_SubmissionsEndAndStalledCallsLoad ==
  /\ []<>(subs = <<>>) \/ []<><<OldestAnswered /\ subs' = Without(subs, 1)>>_vars
  /\ [][/\ (page' = "mounted" /\ Len(subs') < Len(subs))
             => (~loading' /\ (success' # null \/ error' # null))
        /\ (page' = "mounted" /\ subs # <<>> /\ subs' = subs)
             => /\ loading'
                /\ error' \in {error, null, ErrInvalidQr, ErrCamera}]_vars

\* C24: when the start() of a camera scanner rejects, the mounted page is
\* back to idle (scanning false, no scan method) with the camera-access
\* error, no submission is started or changed, and nothing is retried: the
\* scanner that failed is not live and no other scanner is started.
C24_CameraFailureReturnsToIdle ==
  [][\A id \in ScannerIds :
       (CameraStart(id, FALSE) /\ page' = "mounted")
         => /\ ~scanning'
            /\ scanMethod' = null
            /\ error' = ErrCamera
            /\ success' = success
            /\ subs' = subs
            /\ loading' = loading
            /\ ~popupOpen'
            /\ scanners'[id] \notin {"starting", "running"}
            /\ \A other \in ScannerIds :
                 scanners'[other] = "starting" => scanners[other] = "starting"]_vars

C24_CameraStartRejected ==
  /\ page = "mounted"
  /\ last.op = "cameraStart"
  /\ error = ErrCamera
  /\ ~scanning
  /\ scanMethod = null
  /\ subs = <<>>
  /\ \E id \in ScannerIds : scanners[id] = "failed"
  /\ \A id \in ScannerIds : ~Live(id)

\* C25: a stop() that rejects is suppressed. After the step the mounted
\* page is idle (scanning false, no scan method, scannerRef empty), the error
\* message and the success text are what they were, and the scan and manual
\* entry buttons are enabled unless a submission is loading or success is
\* shown.
C25_StopFailureSuppressed ==
  [][\A id \in ScannerIds :
       (StopSettle(id, "reject") /\ page' = "mounted")
         => /\ ~scanning'
            /\ scanMethod' = null
            /\ scannerRef' = 0
            /\ error' = error
            /\ success' = success
            /\ loading' = loading
            /\ subs' = subs
            /\ (~loading' /\ success' = null) => EntryButtonsEnabled']_vars

C25_StopRejectedAndIdle ==
  /\ page = "mounted"
  /\ last.op = "stopSettle"
  /\ ~scanning
  /\ scanMethod = null
  /\ scannerRef = 0
  /\ error = null
  /\ EntryButtonsEnabled
  /\ \E id \in ScannerIds : Live(id) /\ stops[id] = 0

\* C26: the message of a failed submission is chosen by preference. A pair
\* response with ok false gives the server's error text when it has one and
\* the pairing-failed text otherwise; a rejected pair call or token check
\* gives the error text embedded in the rejection when it has one and the
\* generic retry text otherwise. In each case the run of pairDevice ends
\* there: loading is false, the submission is gone and success is untouched.
C26_FailureReasonByPreference ==
  [][/\ \A s \in SubIds, outcome \in PairOutcomes \ {"ok"}, apiKey \in ApiKeys :
          (PairResponse(s, outcome, apiKey) /\ page' = "mounted")
            => /\ error' = CASE outcome = "nok" -> ErrPairingFailed
                             [] outcome = "err" -> ErrGeneric
                             [] OTHER -> ServerError
               /\ ~loading'
               /\ success' = success
               /\ subs' = Without(subs, s)
     /\ \A s \in SubIds, outcome \in {"err_msg", "err"} :
          (TokenResponse(s, outcome) /\ page' = "mounted")
            => /\ error' = (IF outcome = "err" THEN ErrGeneric ELSE ServerError)
               /\ ~loading'
               /\ success' = success
               /\ "POST" \notin subs[s].calls
               /\ subs' = Without(subs, s)]_vars

C26_PairingFailedWithoutReason ==
  /\ page = "mounted"
  /\ last.op = "pairResponse"
  /\ error = ErrPairingFailed
  /\ success = null
  /\ ~loading
  /\ subs = <<>>

\* C27: when the mount effect has found no token, the mounted page holds the
\* no-pairing-token error whether or not the host has a user, and as long as
\* no token is held there is no scan and no submission: not scanning, no
\* popup, no scanner, nothing loading, no backend call.
C27_NoTokenMeansErrorAndNoProgress ==
  ~TruthyStr(pairingToken)
    => /\ page = "mounted" => error = ErrNoTokenFound
       /\ ~scanning
       /\ scanMethod = null
       /\ ~popupOpen
       /\ \A id \in ScannerIds : scanners[id] = "none"
       /\ ~loading
       /\ subs = <<>>

\* ------------------------------------------------------------------------
\* Further properties of the resolver (SpecResolve)
\* ------------------------------------------------------------------------

\* C28: normalization stops at the depth cap. For a host start parameter
\* that wraps a token in one level more than the cap, with no other source,
\* the resolver returns a best-effort value, one of the wrapped forms, and
\* not the token, which lies deeper than the cap.
C28_DecodingStopsAtDepthCap ==
  (loc = "" /\ host.start_param = Str(Wrapped("deep_tok7", DepthCap + 1)))
    => \A k \in DOMAIN resolved :
         \E n \in 1..(DepthCap + 1) : resolved[k] = Wrapped("deep_tok7", n)

\* ------------------------------------------------------------------------
\* Properties of the interleaving of scan and submission (Spec)
\* ------------------------------------------------------------------------

\* C29: the flow is in one state at a time: while the mounted page records a
\* scan session as active (scanning true), no backend call of a submission is
\* in flight.
C29_NoCallWhileScanning ==
  ~(page = "mounted" /\ scanning /\ \E s \in DOMAIN subs : subs[s].calls # {})

\* C30: once the user has clicked Stop Scanning on an in-page scan session,
\* a text that the scanner reports while its stop() is still pending starts
\* no submission: the step after the click, when it is such a report, sends
\* nothing to the backend.
C30_NoSubmissionAfterUserStop ==
  [][\A id \in ScannerIds, text \in ScanPayloads :
       (/\ last.op = "stopScanning"
        /\ last.stopOn = id
        /\ stops[id] > 0
        /\ Decode(id, text))
         => (last'.pair # "submitted" /\ subs' = subs)]_vars

\* C31: the scan bookkeeping is consistent in every reachable state: scanning
\* is true exactly when a strategy is recorded (scanMethod is "telegram" or
\* "html5"), and while the native strategy is recorded no in-page camera
\* scanner is held in scannerRef.
C31_ScanBookkeepingConsistent ==
  /\ scanning <=> scanMethod \in {"telegram", "html5"}
  /\ scanMethod \in {null, "telegram", "html5"}
  /\ scanMethod = "telegram" => scannerRef = 0

\* A native session is recorded: the host's popup is open, scanning is true
\* and the strategy is "telegram".
C31_NativeSessionRecorded ==
  /\ page = "mounted"
  /\ scanning
  /\ scanMethod = "telegram"
  /\ popupOpen

====
